---- MODULE Spec2Model ----
(***************************************************************************)
(* A model of the eventsource persistence core: the in-memory Store        *)
(* (src/store.go), the Repository (src/unnamed/part_003), the error kinds  *)
(* (src/unnamed/part_000) and the Entity aggregate the repository's tests  *)
(* bind it to (src/unnamed/part_005).                                      *)
(*                                                                         *)
(* SpecStore      one caller of the in-memory Store: Save and Load.        *)
(* Spec           one caller of a Repository: Save, Load and Apply, the    *)
(*                repository being bound to a store of any of the three    *)
(*                kinds.                                                   *)
(* SpecFailing    Apply and Load on a Repository whose store may fail to   *)
(*                write.                                                   *)
(* SpecConc       two goroutines calling the in-memory Store's Save at     *)
(*                once, one access to the shared map per step.             *)
(* SpecBatch      Save and Apply with batches of events of several         *)
(*                aggregates and events that cannot be encoded.            *)
(* SpecApplyConc  two goroutines calling Repository.Apply at once.          *)
(* SpecErrors     an error being wrapped on its way up.                    *)
(* SpecSerializer events encoded and decoded by the serializer.            *)
(* SpecScenario   a scenario of the scenario builder: Given, When, Then.   *)
(***************************************************************************)
EXTENDS Integers, Sequences, FiniteSets, TLC

(***************************************************************************)
(* Bounds of the model.                                                    *)
(***************************************************************************)
\* Records the store may hold in total; event versions range over 1..MaxRecords.
MaxRecords == 2
\* Layers wrapped around an error.
MaxLayers == 3
\* Observers registered with WithObservers.
NumObservers == 2

AggregateIDs == {"a", "b"}
Versions == 1..MaxRecords
Observers == 1..NumObservers

(***************************************************************************)
(* Errors.  An error is the chain of its layers, outermost first: what     *)
(* xerrors.Errorf("...: %w", err) builds and Unwrap walks.  The empty      *)
(* chain is the nil error.  A layer is either one of the errorType         *)
(* sentinels or a message (prefixed "msg:").                               *)
(***************************************************************************)
Nil == <<>>

errInvalidEncoding == "InvalidEncoding"
errUnboundEventType == "UnboundEventType"
errAggregateNotFound == "AggregateNotFound"
errUnhandledEvent == "UnhandledEvent"

\* errors.New(text): a leaf that is no sentinel, whatever its text.
ErrorsNew(text) == << "msg:" \o text >>

\* xerrors.Errorf(format ": %w", err): a new layer around err.
Errorf(format, err) == << "msg:" \o format >> \o err

\* fmt.Errorf(format ": %v", err): the text of err only, the chain is cut.
ErrorfV(format, err) == << "msg:" \o format >>

\* A wrapper of the caller's that carries an error kind of its own and hands
\* out the error it wraps (eventsource.NewError(cause, kind, ...) in the tests).
WithKind(kind, err) == << kind >> \o err

\* A comparison of the outermost error only, without unwrapping.
IsOutermost(err, target) == Len(err) > 0 /\ err[1] = target

\* xerrors.Is(err, target): some layer of the chain is the target.
Is(err, target) == \E i \in 1..Len(err) : err[i] = target

IsNotFoundError(err) == Is(err, errAggregateNotFound)

(***************************************************************************)
(* Events and commands.  Model is the embeddable base (ID, Version); the   *)
(* event types are those of the repository's tests.                        *)
(***************************************************************************)
\* EntityCreated and EntityNameSet are handled by Entity.On; Custom is a
\* registered event type Entity.On does not know.
EventTypes == {"EntityCreated", "EntityNameSet", "Custom"}
Names == {"Jones"}

Event(type, id, version, name) ==
    [Type |-> type, ID |-> id, Version |-> version, Name |-> name]

EventsOf(ids) ==
    { Event(t, i, v, "") : t \in EventTypes \ {"EntityNameSet"}, i \in ids, v \in Versions }
    \cup { Event("EntityNameSet", i, v, n) : i \in ids, v \in Versions, n \in Names }

Events == EventsOf(AggregateIDs)

AggregateID(event) == event.ID
EventVersion(event) == event.Version
EventType(event) == event.Type

(***************************************************************************)
(* Serializer.  The JSON serializer is not among the source files; it is   *)
(* modelled from the specification: a record carries the event's version   *)
(* and, as data, the type name with the encoded fields; decoding looks the *)
(* type name up in the registry.                                           *)
(***************************************************************************)
\* NewJSONSerializer(EntityCreated{}, EntityNameSet{}, Custom{})
Registry == {"EntityCreated", "EntityNameSet", "Custom"}

Record(version, data) == [Version |-> version, Data |-> data]

\* An event type the payload encoder rejects (a field of an unsupported type).
Unencodable == {"Unencodable"}

NoRecord == Record(0, <<>>)

MarshalEvent(event) ==
    IF EventType(event) \in Unencodable
    THEN [record |-> NoRecord, err |-> << errInvalidEncoding >>]
    ELSE [record |-> Record(EventVersion(event),
                            << EventType(event), event.ID, event.Version, event.Name >>),
          err |-> Nil]

\* MarshalAll: MarshalEvent for every event, stopping at the first failure.
RECURSIVE MarshalAllFrom(_, _, _)
MarshalAllFrom(events, i, history) ==
    IF i > Len(events) THEN [history |-> history, err |-> Nil]
    ELSE LET r == MarshalEvent(events[i]) IN
         IF r.err # Nil THEN [history |-> <<>>, err |-> r.err]
         ELSE MarshalAllFrom(events, i + 1, Append(history, r.record))

MarshalAll(events) == MarshalAllFrom(events, 1, <<>>)

NoEvent == Event("", "", 0, "")

\* A decoder that fills in the embedded Model only and leaves the event's own
\* fields at their zero value.
UnmarshalModelOnly(record) ==
    IF Len(record.Data) # 4
    THEN [event |-> NoEvent, err |-> << errInvalidEncoding >>]
    ELSE IF record.Data[1] \notin Registry
    THEN [event |-> NoEvent, err |-> << errUnboundEventType >>]
    ELSE [event |-> Event(record.Data[1], record.Data[2], record.Data[3], ""),
          err |-> Nil]

UnmarshalEvent(record) ==
    IF Len(record.Data) # 4
    THEN [event |-> NoEvent, err |-> << errInvalidEncoding >>]
    ELSE IF record.Data[1] \notin Registry
    THEN [event |-> NoEvent, err |-> << errUnboundEventType >>]
    ELSE [event |-> Event(record.Data[1], record.Data[2], record.Data[3], record.Data[4]),
          err |-> Nil]

(***************************************************************************)
(* History: sort.Interface over the records' versions, and sort.Sort.      *)
(* For the lengths reached here (below 7) every release of sort.Sort is a  *)
(* plain insertion sort driven by Less and Swap.                           *)
(***************************************************************************)
Less(h, i, j) == h[i].Version < h[j].Version

Swap(h, i, j) == [h EXCEPT ![i] = h[j], ![j] = h[i]]

RECURSIVE Sift(_, _)
Sift(h, j) ==
    IF j > 1 /\ Less(h, j, j - 1) THEN Sift(Swap(h, j, j - 1), j - 1) ELSE h

RECURSIVE InsertFrom(_, _)
InsertFrom(h, i) ==
    IF i > Len(h) THEN h ELSE InsertFrom(Sift(h, i), i + 1)

Sort(h) == InsertFrom(h, 2)

(***************************************************************************)
(* memoryStore: eventsByID is a map from aggregate id to History.          *)
(***************************************************************************)
\* Save without the sort: the appended records stay where the caller put them.
MemSaveUnsorted(m, aggregateID, records) ==
    LET m1 == IF aggregateID \in DOMAIN m THEN m ELSE m @@ (aggregateID :> <<>>)
    IN  [m1 EXCEPT ![aggregateID] = m1[aggregateID] \o records]

\* Save that replaces the stored records whose version comes again.
MemSaveReplacing(m, aggregateID, records) ==
    LET m1 == IF aggregateID \in DOMAIN m THEN m ELSE m @@ (aggregateID :> <<>>)
        kept == SelectSeq(m1[aggregateID], LAMBDA old :
                    \A i \in 1..Len(records) : records[i].Version # old.Version)
    IN  [m1 EXCEPT ![aggregateID] = Sort(kept \o records)]

MemSave(m, aggregateID, records) ==
    LET m1 == IF aggregateID \in DOMAIN m THEN m ELSE m @@ (aggregateID :> <<>>)
        history == Sort(m1[aggregateID] \o records)
    IN  [m1 EXCEPT ![aggregateID] = history]

InRange(v, fromVersion, toVersion) ==
    v >= fromVersion /\ (toVersion = 0 \/ v <= toVersion)

MemLoad(m, aggregateID, fromVersion, toVersion) ==
    IF aggregateID \notin DOMAIN m
    THEN [history |-> <<>>,
          err |-> Errorf("no aggregate found with id", << errAggregateNotFound >>)]
    ELSE LET all == m[aggregateID]
             history == SelectSeq(all, LAMBDA record :
                                         InRange(record.Version, fromVersion, toVersion))
         IN  [history |-> all, err |-> Nil]

(***************************************************************************)
(* The store bound to the repository.  memoryStore implements Store only;  *)
(* a caller may bind (WithStore) a store that also implements the          *)
(* deprecated StoreAggregate or the AggregateSaver interface.  Their       *)
(* SaveAggregate methods have different signatures, so no store implements *)
(* both.  No such store is among the source files: SaveAggregate is        *)
(* modelled from the specification as persisting the records as Save does. *)
(***************************************************************************)
StoreKinds == {"Store", "StoreAggregate", "AggregateSaver"}

\* Save and SaveAggregate return an error: a caller's store may be one whose
\* writes fail (memoryStore's never do).  Such a store keeps nothing.
FailingStoreKinds == {"Unavailable", "UnavailableAggregate"}

\* r.store.(StoreAggregate)
ImplementsStoreAggregate(kind) == kind \in {"StoreAggregate", "UnavailableAggregate"}

SaveAggregate(m, aggregateID, aggregate, records) == MemSave(m, aggregateID, records)

\* r.store.Save(ctx, aggregateID, records...) on the bound store: [store, err]
BoundSave(kind, m, aggregateID, records) ==
    IF kind \in FailingStoreKinds
    THEN [store |-> m, err |-> ErrorsNew("store unavailable")]
    ELSE [store |-> MemSave(m, aggregateID, records), err |-> Nil]

\* store.SaveAggregate(ctx, aggregateID, aggregate, records...): [store, err]
BoundSaveAggregate(kind, m, aggregateID, aggregate, records) ==
    IF kind \in FailingStoreKinds
    THEN [store |-> m, err |-> ErrorsNew("store unavailable")]
    ELSE [store |-> SaveAggregate(m, aggregateID, aggregate, records), err |-> Nil]

(***************************************************************************)
(* The aggregate of the repository's tests: Entity, its On and its Apply.  *)
(* The timestamps (CreatedAt, UpdatedAt) are left out.                     *)
(***************************************************************************)
\* reflect.New(r.prototype): a zero Entity
newAggregate == [Version |-> 0, ID |-> "", Name |-> ""]

On(item, event) ==
    CASE event.Type = "EntityCreated" ->
            [aggregate |-> [item EXCEPT !.Version = event.Version, !.ID = event.ID],
             err |-> Nil]
      [] event.Type = "EntityNameSet" ->
            [aggregate |-> [item EXCEPT !.Version = event.Version, !.Name = event.Name],
             err |-> Nil]
      [] OTHER ->
            [aggregate |-> item, err |-> ErrorsNew("UnhandledEvent")]

\* Entity.Apply: CreateEntity emits one EntityCreated at the next version; Nop
\* and every other command emit nothing.
EntityApply(item, command) ==
    CASE command.Type = "CreateEntity" ->
            [events |-> << Event("EntityCreated", command.ID, item.Version + 1, "") >>,
             err |-> Nil]
      [] command.Type = "Nop" -> [events |-> <<>>, err |-> Nil]
      [] OTHER -> [events |-> <<>>, err |-> Nil]

\* h.Apply(ctx, command): the aggregate's command handling is the caller's.
\* Beside Entity's commands the model lets the handler emit two events
\* (CreateNamed), emit an event the aggregate's On rejects (EmitCustom), emit
\* an event the serializer cannot encode (EmitUnencodable) and fail (Reject).
\* Two more handlers are used where batches are looked at: one whose second
\* event cannot be encoded (CreateUnencodable) and one that leaves Model.ID of
\* its event unset (CreateUnstamped).
CommandTypes == {"CreateEntity", "Nop", "CreateNamed", "EmitCustom", "EmitUnencodable",
                 "Reject"}

BatchCommandTypes == {"CreateEntity", "Nop", "CreateNamed", "CreateUnencodable",
                      "CreateUnstamped"}

CommandHandlerApply(item, command) ==
    CASE command.Type = "CreateNamed" ->
            [events |-> << Event("EntityCreated", command.ID, item.Version + 1, ""),
                           Event("EntityNameSet", command.ID, item.Version + 2, "Jones") >>,
             err |-> Nil]
      [] command.Type = "EmitCustom" ->
            [events |-> << Event("Custom", command.ID, item.Version + 1, "") >>,
             err |-> Nil]
      [] command.Type = "EmitUnencodable" ->
            [events |-> << Event("Unencodable", command.ID, item.Version + 1, "") >>,
             err |-> Nil]
      [] command.Type = "Reject" ->
            [events |-> <<>>, err |-> ErrorsNew("command rejected")]
      [] command.Type = "CreateUnencodable" ->
            [events |-> << Event("EntityCreated", command.ID, item.Version + 1, ""),
                           Event("Unencodable", command.ID, item.Version + 2, "") >>,
             err |-> Nil]
      [] command.Type = "CreateUnstamped" ->
            [events |-> << Event("EntityCreated", "", item.Version + 1, "") >>,
             err |-> Nil]
      [] OTHER -> EntityApply(item, command)

NilCommand == [Type |-> "nil", ID |-> ""]

Commands == { [Type |-> t, ID |-> i] : t \in CommandTypes, i \in AggregateIDs }
            \cup { [Type |-> "CreateEntity", ID |-> ""], NilCommand }

BatchCommands == { [Type |-> t, ID |-> i] : t \in BatchCommandTypes, i \in AggregateIDs }

(***************************************************************************)
(* State.                                                                  *)
(***************************************************************************)
VARIABLES
    storeKind,    \* what the bound store implements beside Store
    eventsByID,   \* memoryStore.eventsByID
    before,       \* eventsByID as the last operation found it
    last,         \* the last operation: its arguments and what it returned
    calls,        \* the Store and Serializer methods the last operation invoked, in order
    published,    \* the observer calls of the last operation: << observer, event >>
    saved,        \* history: the aggregate ids records were ever saved for
    loaded,       \* history: what Repository.Load first returned for each id
                  \* since the last Save or Apply
    pc,           \* SpecConc: where each goroutine stands in memoryStore.Save
    job,          \* SpecConc: each goroutine's arguments and locals
    crashed       \* SpecConc: the runtime has aborted the process

(***************************************************************************)
(* Repository.                                                             *)
(***************************************************************************)
\* n calls of the serializer's MarshalEvent.
Marshalled(n) == [i \in 1..n |-> "MarshalEvent"]

\* makeRecords: encode every event, stop at the first failure.
RECURSIVE makeRecordsFrom(_, _, _)
makeRecordsFrom(events, i, records) ==
    IF i > Len(events)
    THEN [records |-> records, err |-> Nil, calls |-> Marshalled(Len(events))]
    ELSE LET r == MarshalEvent(events[i]) IN
         IF r.err # Nil THEN [records |-> <<>>, err |-> r.err, calls |-> Marshalled(i)]
         ELSE makeRecordsFrom(events, i + 1, Append(records, r.record))

\* makeRecords that leaves out the events it cannot encode and reports nothing.
makeRecordsLenient(events) ==
    LET ok == SelectSeq(events, LAMBDA event : MarshalEvent(event).err = Nil)
    IN  [records |-> [i \in 1..Len(ok) |-> MarshalEvent(ok[i]).record],
         err |-> Nil, calls |-> Marshalled(Len(events))]

makeRecords(events) == makeRecordsFrom(events, 1, <<>>)

\* Save without the test for an empty event list: the store is called with
\* no aggregate id and no records.
RepoSaveUnguarded(m, kind, events) ==
    LET aggregateID == IF Len(events) = 0 THEN "" ELSE AggregateID(events[1])
        mk == makeRecords(events)
        s == BoundSave(kind, m, aggregateID, mk.records)
    IN  IF mk.err # Nil THEN [store |-> m, err |-> mk.err, calls |-> mk.calls]
        ELSE [store |-> s.store, err |-> s.err, calls |-> mk.calls \o << "Save" >>]

\* Save that files every record under the aggregate id of its own event.
RECURSIVE SaveEach(_, _, _, _)
SaveEach(kind, m, events, i) ==
    IF i > Len(events) THEN [store |-> m, err |-> Nil]
    ELSE LET s == BoundSave(kind, m, AggregateID(events[i]),
                            << MarshalEvent(events[i]).record >>)
         IN  IF s.err # Nil THEN s ELSE SaveEach(kind, s.store, events, i + 1)

RepoSaveByEvent(m, kind, events) ==
    IF Len(events) = 0 THEN [store |-> m, err |-> Nil, calls |-> <<>>]
    ELSE LET mk == makeRecords(events)
             s == SaveEach(kind, m, events, 1)
         IN  IF mk.err # Nil THEN [store |-> m, err |-> mk.err, calls |-> mk.calls]
             ELSE [store |-> s.store, err |-> s.err, calls |-> mk.calls \o << "Save" >>]

\* Repository.Save: [store, err, calls]
RepoSave(m, kind, events) ==
    IF Len(events) = 0 THEN [store |-> m, err |-> Nil, calls |-> <<>>]
    ELSE LET aggregateID == AggregateID(events[1])
             mk == makeRecords(events)
             s == BoundSave(kind, m, aggregateID, mk.records)
         IN  IF mk.err # Nil THEN [store |-> m, err |-> mk.err, calls |-> mk.calls]
             ELSE [store |-> s.store, err |-> s.err, calls |-> mk.calls \o << "Save" >>]

\* The loop of Repository.Load over the history, from record i on.
RECURSIVE LoadLoop(_, _, _, _)
LoadLoop(history, i, aggregate, version) ==
    IF i > Len(history)
    THEN [aggregate |-> << aggregate >>, version |-> version, err |-> Nil]
    ELSE LET u == UnmarshalEvent(history[i]) IN
         IF u.err # Nil THEN [aggregate |-> <<>>, version |-> 0, err |-> u.err]
         ELSE LET o == On(aggregate, u.event) IN
              IF o.err # Nil
              THEN [aggregate |-> <<>>, version |-> 0,
                    err |-> Errorf("aggregate was unable to handle event", o.err)]
              ELSE LoadLoop(history, i + 1, o.aggregate, EventVersion(u.event))

\* Load that answers a missing aggregate with a fresh one instead of an error.
RepoLoadFresh(m, aggregateID) ==
    LET l == MemLoad(m, aggregateID, 0, 0) IN
    LoadLoop(l.history, 1, newAggregate, 0)

\* Load that folds the history from its last record to its first.
RepoLoadReversed(m, aggregateID) ==
    LET l == MemLoad(m, aggregateID, 0, 0)
        n == Len(l.history)
    IN  IF l.err # Nil THEN [aggregate |-> <<>>, version |-> 0, err |-> l.err]
        ELSE IF n = 0
        THEN [aggregate |-> <<>>, version |-> 0,
              err |-> Errorf("unable to load", << errAggregateNotFound >>)]
        ELSE LoadLoop([i \in 1..n |-> l.history[n + 1 - i]], 1, newAggregate, 0)

\* Load that folds into the aggregate the previous Load handed out instead of
\* a new instance.
RepoLoadShared(m, aggregateID) ==
    LET l == MemLoad(m, aggregateID, 0, 0)
        instance == IF last.op = "Repository.Load" /\ last.aggregate # <<>>
                    THEN last.aggregate[1] ELSE newAggregate
    IN  IF l.err # Nil THEN [aggregate |-> <<>>, version |-> 0, err |-> l.err]
        ELSE IF Len(l.history) = 0
        THEN [aggregate |-> <<>>, version |-> 0,
              err |-> Errorf("unable to load", << errAggregateNotFound >>)]
        ELSE LoadLoop(l.history, 1, instance, 0)

\* Repository.Load: [aggregate, version, err]; aggregate is <<>> for nil.
RepoLoad(m, aggregateID) ==
    LET l == MemLoad(m, aggregateID, 0, 0) IN
    IF l.err # Nil THEN [aggregate |-> <<>>, version |-> 0, err |-> l.err]
    ELSE IF Len(l.history) = 0
    THEN [aggregate |-> <<>>, version |-> 0,
          err |-> Errorf("unable to load", << errAggregateNotFound >>)]
    ELSE LoadLoop(l.history, 1, newAggregate, 0)

\* The loop left out: the aggregate stays as Load returned it.
FoldNone(aggregate, events, i) == [aggregate |-> aggregate, err |-> Nil]

\* The loop of Apply that folds the generated events into the aggregate.
RECURSIVE FoldEvents(_, _, _)
FoldEvents(aggregate, events, i) ==
    IF i > Len(events) THEN [aggregate |-> aggregate, err |-> Nil]
    ELSE LET o == On(aggregate, events[i]) IN
         IF o.err # Nil THEN [aggregate |-> o.aggregate, err |-> o.err]
         ELSE FoldEvents(o.aggregate, events, i + 1)

\* The publication loop walking the events from the last to the first.
PublishLastFirst(events) ==
    [k \in 1..(Len(events) * NumObservers) |->
        << ((k - 1) % NumObservers) + 1,
           events[Len(events) - ((k - 1) \div NumObservers)] >>]

\* The publication loop: for each event, for each observer.
Publish(events) ==
    [k \in 1..(Len(events) * NumObservers) |->
        << ((k - 1) % NumObservers) + 1, events[((k - 1) \div NumObservers) + 1] >>]

\* The calls of the observers in the publication loop.
Observed(events) == [k \in 1..(Len(events) * NumObservers) |-> "Observer"]

\* The version Apply returns when it does not look at the generated events.
ApplyVersionLoaded(events, version) == version

\* The version Apply returns: that of the last generated event, or Load's.
ApplyVersion(events, version) ==
    LET v == Len(events) IN
    IF v > 0 THEN EventVersion(events[v]) ELSE version

ApplyResult(m, err, version, loadErr, loadVersion, handled, events, aggregate, cs, pub) ==
    [store |-> m, err |-> err, version |-> version, loadErr |-> loadErr,
     loadVersion |-> loadVersion, handled |-> handled, events |-> events,
     aggregate |-> aggregate, calls |-> cs, published |-> pub]

\* Apply from the command handler on: the aggregate and version are Load's.
\* Entity implements CommandHandler, so the type assertion of line 185 holds.
\* The aggregate of the result is the instance as Apply leaves it: On changes
\* it in place, so after the fold it carries the generated events.
ApplyLoaded(m, kind, command, l) ==
    LET aggregateID == command.ID
        aggregate == IF l.err # Nil THEN newAggregate ELSE l.aggregate[1]
        h == CommandHandlerApply(aggregate, command)
        mk == makeRecords(h.events)
        version == ApplyVersion(h.events, l.version)
        Fail(err, cs) == ApplyResult(m, err, 0, l.err, l.version, TRUE, h.events,
                                     << aggregate >>, << "Load" >> \o cs, <<>>)
    IN  IF h.err # Nil THEN Fail(h.err, <<>>)
        ELSE IF mk.err # Nil THEN Fail(mk.err, mk.calls)
        ELSE IF ImplementsStoreAggregate(kind)
        THEN LET f == FoldEvents(aggregate, h.events, 1) IN
             IF f.err # Nil
             THEN [Fail(ErrorfV("unable to apply generated events to aggregate", f.err),
                        mk.calls) EXCEPT !.aggregate = << f.aggregate >>]
             ELSE LET s == BoundSaveAggregate(kind, m, aggregateID, f.aggregate, mk.records)
                  IN  IF s.err # Nil
                      THEN [Fail(s.err, mk.calls \o << "SaveAggregate" >>)
                               EXCEPT !.aggregate = << f.aggregate >>]
                      ELSE ApplyResult(s.store, Nil, version, l.err, l.version, TRUE,
                                       h.events, << f.aggregate >>,
                                       << "Load" >> \o mk.calls \o << "SaveAggregate" >>
                                           \o Observed(h.events),
                                       Publish(h.events))
        ELSE LET s == RepoSave(m, kind, h.events) IN
             IF s.err # Nil THEN Fail(s.err, mk.calls \o s.calls)
             ELSE ApplyResult(s.store, Nil, version, l.err, l.version, TRUE, h.events,
                              << aggregate >>,
                              << "Load" >> \o mk.calls \o s.calls \o Observed(h.events),
                              Publish(h.events))

\* Apply that returns every failure of Load, the not-found one included.
ApplyStrict(m, kind, command) ==
    IF command = NilCommand \/ command.ID = ""
    THEN ApplyResult(m, ErrorsNew("command provided to Repository.Apply may not be nil"),
                     0, Nil, 0, FALSE, <<>>, <<>>, <<>>, <<>>)
    ELSE LET l == RepoLoad(m, command.ID) IN
         IF l.err # Nil
         THEN ApplyResult(m, l.err, 0, l.err, l.version, FALSE, <<>>, <<>>,
                          << "Load" >>, <<>>)
         ELSE ApplyLoaded(m, kind, command, l)

\* Apply without the two tests of its command.
ApplyUnchecked(m, kind, command) ==
    ApplyLoaded(m, kind, command, RepoLoad(m, command.ID))

\* Apply that wraps a failure of a later stage in an error of its own.
ApplyWrapping(m, kind, command) ==
    IF command = NilCommand \/ command.ID = ""
    THEN ApplyResult(m, ErrorsNew("command provided to Repository.Apply may not be nil"),
                     0, Nil, 0, FALSE, <<>>, <<>>, <<>>, <<>>)
    ELSE LET r == ApplyLoaded(m, kind, command, RepoLoad(m, command.ID)) IN
         [r EXCEPT !.err = IF r.err = Nil THEN Nil
                           ELSE Errorf("unable to apply command", r.err)]

\* Apply that calls the observers with the generated events whether or not
\* they were persisted.
ApplyPublishing(m, kind, command) ==
    IF command = NilCommand \/ command.ID = ""
    THEN ApplyResult(m, ErrorsNew("command provided to Repository.Apply may not be nil"),
                     0, Nil, 0, FALSE, <<>>, <<>>, <<>>, <<>>)
    ELSE LET r == ApplyLoaded(m, kind, command, RepoLoad(m, command.ID)) IN
         [r EXCEPT !.published = Publish(r.events)]

\* Repository.Apply
Apply(m, kind, command) ==
    IF command = NilCommand
    THEN ApplyResult(m, ErrorsNew("command provided to Repository.Apply may not be nil"),
                     0, Nil, 0, FALSE, <<>>, <<>>, <<>>, <<>>)
    ELSE IF command.ID = ""
    THEN ApplyResult(m, ErrorsNew("command provided to Repository.Apply may not contain a blank AggregateID"),
                     0, Nil, 0, FALSE, <<>>, <<>>, <<>>, <<>>)
    ELSE ApplyLoaded(m, kind, command, RepoLoad(m, command.ID))

(***************************************************************************)
(* Initial states and bookkeeping.                                         *)
(***************************************************************************)
vars == << storeKind, eventsByID, before, last, calls, published, saved, loaded,
           pc, job, crashed >>

caller == << before, last, calls, published, saved, loaded >>
goroutines == << pc, job, crashed >>

Goroutines == {1, 2}

NoLoad == [aggregate |-> <<>>, version |-> 0, err |-> Nil]

NoJob == [id |-> "", records |-> <<>>, ok |-> FALSE, history |-> <<>>,
          command |-> NilCommand, loaded |-> NoLoad]

NoOp ==
    [op |-> "none", id |-> "", fromVersion |-> 0, toVersion |-> 0,
     records |-> <<>>, events |-> <<>>, command |-> NilCommand,
     err |-> Nil, history |-> <<>>, aggregate |-> <<>>, version |-> 0,
     loadErr |-> Nil, loadVersion |-> 0, handled |-> FALSE, repeated |-> FALSE,
     root |-> Nil, index |-> 0, decoded |-> <<>>,
     given |-> <<>>, expected |-> <<>>, messages |-> <<>>]

RECURSIVE SumLen(_, _)
SumLen(m, ids) ==
    IF ids = {} THEN 0
    ELSE LET i == CHOOSE x \in ids : TRUE IN Len(m[i]) + SumLen(m, ids \ {i})

TotalRecords(m) == SumLen(m, DOMAIN m)

HistoryLen(m, id) == IF id \in DOMAIN m THEN Len(m[id]) ELSE 0

\* The ids whose history holds more records in new than in old.
Grown(old, new) == { id \in DOMAIN new : Len(new[id]) > HistoryLen(old, id) }

\* Batches of at most n elements of S.
Batches(S, n) == UNION { [1..k -> S] : k \in 0..n }

InitStore ==
    /\ storeKind = "Store"
    /\ eventsByID = << >>
    /\ before = << >>
    /\ last = NoOp
    /\ calls = <<>>
    /\ published = <<>>
    /\ saved = {}
    /\ loaded = << >>
    /\ pc = [g \in Goroutines |-> "idle"]
    /\ job = [g \in Goroutines |-> NoJob]
    /\ crashed = FALSE

Init ==
    /\ storeKind \in StoreKinds
    /\ eventsByID = << >>
    /\ before = << >>
    /\ last = NoOp
    /\ calls = <<>>
    /\ published = <<>>
    /\ saved = {}
    /\ loaded = << >>
    /\ pc = [g \in Goroutines |-> "idle"]
    /\ job = [g \in Goroutines |-> NoJob]
    /\ crashed = FALSE

(***************************************************************************)
(* Operations of the sequential caller.                                    *)
(***************************************************************************)
\* Store.Save(ctx, aggregateID, records...)
StoreSave ==
    \E id \in AggregateIDs :
    \E events \in Batches(EventsOf({id}), MaxRecords - TotalRecords(eventsByID)) :
        \E records \in {[i \in 1..Len(events) |-> MarshalEvent(events[i]).record]} :
        /\ eventsByID' = MemSave(eventsByID, id, records)
        /\ before' = eventsByID
        /\ last' = [NoOp EXCEPT !.op = "Store.Save", !.id = id, !.records = records]
        /\ calls' = << "Save" >>
        /\ published' = <<>>
        /\ saved' = saved \cup Grown(eventsByID, eventsByID')
        /\ UNCHANGED << storeKind, loaded, goroutines >>

\* Store.Load(ctx, aggregateID, fromVersion, toVersion)
StoreLoad ==
    \E id \in AggregateIDs, fromVersion \in 0..MaxRecords, toVersion \in 0..MaxRecords :
        \E r \in {MemLoad(eventsByID, id, fromVersion, toVersion)} :
        /\ last' = [NoOp EXCEPT !.op = "Store.Load", !.id = id,
                                !.fromVersion = fromVersion, !.toVersion = toVersion,
                                !.history = r.history, !.err = r.err]
        /\ before' = eventsByID
        /\ calls' = << "Load" >>
        /\ published' = <<>>
        /\ UNCHANGED << storeKind, eventsByID, saved, loaded, goroutines >>

\* Repository.Save(ctx, events...), the events of one call being those of one
\* aggregate
RepositorySave ==
    \E id \in AggregateIDs :
    \E events \in Batches(EventsOf({id}), MaxRecords - TotalRecords(eventsByID)) :
    \E r \in {RepoSave(eventsByID, storeKind, events)} :
        /\ eventsByID' = r.store
        /\ before' = eventsByID
        /\ last' = [NoOp EXCEPT !.op = "Repository.Save", !.events = events, !.err = r.err]
        /\ calls' = r.calls
        /\ published' = <<>>
        /\ saved' = saved \cup Grown(eventsByID, eventsByID')
        /\ loaded' = << >>
        /\ UNCHANGED << storeKind, goroutines >>

\* Repository.Load(ctx, aggregateID)
RepositoryLoad ==
    \E id \in AggregateIDs :
        \E r \in {RepoLoad(eventsByID, id)} :
        /\ last' = [NoOp EXCEPT !.op = "Repository.Load", !.id = id,
                                !.aggregate = r.aggregate, !.version = r.version,
                                !.err = r.err, !.repeated = (id \in DOMAIN loaded)]
        /\ before' = eventsByID
        /\ calls' = << "Load" >>
        /\ published' = <<>>
        /\ loaded' = IF id \in DOMAIN loaded THEN loaded ELSE loaded @@ (id :> r)
        /\ UNCHANGED << storeKind, eventsByID, saved, goroutines >>

\* Repository.Apply(ctx, command)
RepositoryApply ==
    \E command \in Commands :
        \E r \in {Apply(eventsByID, storeKind, command)} :
        /\ TotalRecords(r.store) <= MaxRecords
        /\ \A i \in 1..Len(r.events) : r.events[i].Version \in Versions
        /\ eventsByID' = r.store
        /\ before' = eventsByID
        /\ last' = [NoOp EXCEPT !.op = "Repository.Apply", !.id = command.ID,
                                !.command = command, !.err = r.err,
                                !.version = r.version, !.loadErr = r.loadErr,
                                !.loadVersion = r.loadVersion, !.handled = r.handled,
                                !.events = r.events, !.aggregate = r.aggregate]
        /\ calls' = r.calls
        /\ published' = r.published
        /\ saved' = saved \cup Grown(eventsByID, eventsByID')
        /\ loaded' = << >>
        /\ UNCHANGED << storeKind, goroutines >>

NextStore ==
    \/ StoreSave
    \/ StoreLoad

SpecStore == InitStore /\ [][NextStore]_vars

Next ==
    \/ RepositorySave
    \/ RepositoryLoad
    \/ RepositoryApply

Spec == Init /\ [][Next]_vars

\* Commands applied through a repository bound to a store that works or to
\* one whose writes fail.  (A store implementing AggregateSaver is written as
\* a plain store is.)
InitFailing ==
    /\ storeKind \in {"Store", "StoreAggregate"} \cup FailingStoreKinds
    /\ eventsByID = << >>
    /\ before = << >>
    /\ last = NoOp
    /\ calls = <<>>
    /\ published = <<>>
    /\ saved = {}
    /\ loaded = << >>
    /\ pc = [g \in Goroutines |-> "idle"]
    /\ job = [g \in Goroutines |-> NoJob]
    /\ crashed = FALSE

NextFailing ==
    \/ RepositoryApply
    \/ RepositoryLoad

SpecFailing == InitFailing /\ [][NextFailing]_vars

(***************************************************************************)
(* Batches.  Repository.Save is called with events of any aggregate ids in *)
(* one call, events the serializer cannot encode among them, and Apply     *)
(* with handlers that emit such batches.  The caller stops at the first    *)
(* failure.  The store holds one record more than elsewhere, so that a     *)
(* full batch can be saved beside a stored history.                        *)
(***************************************************************************)
BatchEvents ==
    { Event(t, i, v, "") : t \in {"EntityCreated"} \cup Unencodable,
                           i \in AggregateIDs, v \in Versions }

BatchRoom(m) == MaxRecords + 1 - TotalRecords(m)

InitBatch ==
    /\ storeKind \in {"Store", "StoreAggregate"}
    /\ eventsByID = << >>
    /\ before = << >>
    /\ last = NoOp
    /\ calls = <<>>
    /\ published = <<>>
    /\ saved = {}
    /\ loaded = << >>
    /\ pc = [g \in Goroutines |-> "idle"]
    /\ job = [g \in Goroutines |-> NoJob]
    /\ crashed = FALSE

\* Repository.Save(ctx, events...), whatever aggregates the events belong to
RepositorySaveBatch ==
    /\ last.err = Nil
    /\ \E n \in 0..MaxRecords :
       /\ n <= BatchRoom(eventsByID)
       /\ \E events \in [1..n -> BatchEvents] :
          \E r \in {RepoSave(eventsByID, storeKind, events)} :
          /\ eventsByID' = r.store
          /\ before' = eventsByID
          /\ last' = [NoOp EXCEPT !.op = "Repository.Save", !.events = events,
                                  !.err = r.err]
          /\ calls' = r.calls
          /\ published' = <<>>
          /\ saved' = saved \cup Grown(eventsByID, eventsByID')
          /\ loaded' = << >>
          /\ UNCHANGED << storeKind, goroutines >>

\* Repository.Apply(ctx, command), the handler emitting a batch
RepositoryApplyBatch ==
    /\ last.err = Nil
    /\ \E command \in BatchCommands :
       \E r \in {Apply(eventsByID, storeKind, command)} :
          /\ Len(r.events) <= BatchRoom(eventsByID)
          /\ \A i \in 1..Len(r.events) : r.events[i].Version \in Versions
          /\ eventsByID' = r.store
          /\ before' = eventsByID
          /\ last' = [NoOp EXCEPT !.op = "Repository.Apply", !.id = command.ID,
                                  !.command = command, !.err = r.err,
                                  !.version = r.version, !.loadErr = r.loadErr,
                                  !.loadVersion = r.loadVersion, !.handled = r.handled,
                                  !.events = r.events, !.aggregate = r.aggregate]
          /\ calls' = r.calls
          /\ published' = r.published
          /\ saved' = saved \cup Grown(eventsByID, eventsByID')
          /\ loaded' = << >>
          /\ UNCHANGED << storeKind, goroutines >>

NextBatch ==
    \/ RepositorySaveBatch
    \/ RepositoryApplyBatch

SpecBatch == InitBatch /\ [][NextBatch]_vars

(***************************************************************************)
(* Two goroutines calling memoryStore.Save at once.  Save never locks      *)
(* m.mux, so its statements interleave freely: the lookup (line 86), the   *)
(* creation of a missing history (line 87), the append and sort of a copy  *)
(* (lines 90, 91) and the write back (line 92) are steps of their own.     *)
(* Unsynchronised access to a Go map is a data race: beside the            *)
(* interleavings, the runtime may abort the process when an access         *)
(* coincides with a write.                                                 *)
(***************************************************************************)
InitConc ==
    /\ storeKind = "Store"
    /\ eventsByID = << >>
    /\ before = << >>
    /\ last = NoOp
    /\ calls = <<>>
    /\ published = <<>>
    /\ saved = {}
    /\ loaded = << >>
    /\ pc = [g \in Goroutines |-> "idle"]
    /\ job = [g \in Goroutines |-> NoJob]
    /\ crashed = FALSE

\* go store.Save(ctx, id, record)
SaveCall(g) ==
    /\ ~crashed
    /\ pc[g] = "idle"
    /\ \E id \in AggregateIDs : \E event \in EventsOf({id}) :
          job' = [job EXCEPT ![g] = [NoJob EXCEPT !.id = id,
                                        !.records = << MarshalEvent(event).record >>]]
    /\ pc' = [pc EXCEPT ![g] = "lookup"]
    /\ UNCHANGED << storeKind, eventsByID, caller, crashed >>

\* line 86: _, ok := m.eventsByID[aggregateID]
SaveLookup(g) ==
    /\ ~crashed
    /\ pc[g] = "lookup"
    /\ job' = [job EXCEPT ![g].ok = (job[g].id \in DOMAIN eventsByID)]
    /\ pc' = [pc EXCEPT ![g] = IF job[g].id \in DOMAIN eventsByID THEN "append" ELSE "create"]
    /\ UNCHANGED << storeKind, eventsByID, caller, crashed >>

\* line 87: m.eventsByID[aggregateID] = History{}
SaveCreate(g) ==
    /\ ~crashed
    /\ pc[g] = "create"
    /\ eventsByID' = [id \in DOMAIN eventsByID \cup {job[g].id} |->
                        IF id = job[g].id THEN <<>> ELSE eventsByID[id]]
    /\ pc' = [pc EXCEPT ![g] = "append"]
    /\ UNCHANGED << storeKind, caller, job, crashed >>

\* lines 90, 91: history := append(m.eventsByID[aggregateID], records...); sort.Sort(history)
SaveAppend(g) ==
    /\ ~crashed
    /\ pc[g] = "append"
    /\ job' = [job EXCEPT ![g].history =
                  Sort((IF job[g].id \in DOMAIN eventsByID
                        THEN eventsByID[job[g].id] ELSE <<>>) \o job[g].records)]
    /\ pc' = [pc EXCEPT ![g] = "write"]
    /\ UNCHANGED << storeKind, eventsByID, caller, crashed >>

\* line 92: m.eventsByID[aggregateID] = history
SaveWrite(g) ==
    /\ ~crashed
    /\ pc[g] = "write"
    /\ eventsByID' = [id \in DOMAIN eventsByID \cup {job[g].id} |->
                        IF id = job[g].id THEN job[g].history ELSE eventsByID[id]]
    /\ pc' = [pc EXCEPT ![g] = "done"]
    /\ UNCHANGED << storeKind, caller, job, crashed >>

AccessesMap(g) == pc[g] \in {"lookup", "create", "append", "write"}
WritesMap(g) == pc[g] \in {"create", "write"}

\* fatal error: concurrent map writes / concurrent map read and map write
MapFault ==
    /\ ~crashed
    /\ \E g, h \in Goroutines : g # h /\ WritesMap(g) /\ AccessesMap(h)
    /\ crashed' = TRUE
    /\ UNCHANGED << storeKind, eventsByID, caller, pc, job >>

NextConc ==
    \/ \E g \in Goroutines : SaveCall(g)
    \/ \E g \in Goroutines : SaveLookup(g)
    \/ \E g \in Goroutines : SaveCreate(g)
    \/ \E g \in Goroutines : SaveAppend(g)
    \/ \E g \in Goroutines : SaveWrite(g)
    \/ MapFault

SpecConc == InitConc /\ [][NextConc]_vars

(***************************************************************************)
(* Two goroutines calling Repository.Apply at once.  Apply holds no lock   *)
(* between its Load (line 180) and its write (lines 206, 210): the two     *)
(* are steps of their own.  Each store operation is taken as one step,     *)
(* what a store serialising its operations provides.  The handler is       *)
(* Entity's: CreateEntity emits one event at the loaded version + 1.       *)
(***************************************************************************)
InitApplyConc ==
    /\ storeKind \in {"Store", "StoreAggregate"}
    /\ eventsByID = << >>
    /\ before = << >>
    /\ last = NoOp
    /\ calls = <<>>
    /\ published = <<>>
    /\ saved = {}
    /\ loaded = << >>
    /\ pc = [g \in Goroutines |-> "idle"]
    /\ job = [g \in Goroutines |-> NoJob]
    /\ crashed = FALSE

\* go repository.Apply(ctx, command), up to and including r.Load (line 180)
ApplyLoad(g) ==
    /\ pc[g] \in {"idle", "done"}
    /\ \E id \in AggregateIDs :
       \E command \in {[Type |-> "CreateEntity", ID |-> id]} :
          job' = [job EXCEPT ![g] = [NoJob EXCEPT !.id = id, !.command = command,
                                        !.loaded = RepoLoad(eventsByID, id)]]
    /\ pc' = [pc EXCEPT ![g] = "loaded"]
    /\ UNCHANGED << storeKind, eventsByID, caller, crashed >>

\* the rest of Apply (lines 181-227): handler, encoding, write, publication
ApplyPersist(g) ==
    /\ pc[g] = "loaded"
    /\ \E r \in {ApplyLoaded(eventsByID, storeKind, job[g].command, job[g].loaded)} :
          /\ TotalRecords(r.store) <= MaxRecords
          /\ eventsByID' = r.store
          /\ before' = eventsByID
          /\ last' = [NoOp EXCEPT !.op = "Repository.Apply", !.id = job[g].id,
                                  !.command = job[g].command, !.err = r.err,
                                  !.version = r.version, !.loadErr = r.loadErr,
                                  !.loadVersion = r.loadVersion, !.handled = r.handled,
                                  !.events = r.events, !.aggregate = r.aggregate]
          /\ calls' = r.calls
          /\ published' = r.published
          /\ saved' = saved \cup Grown(eventsByID, eventsByID')
    /\ pc' = [pc EXCEPT ![g] = "done"]
    /\ UNCHANGED << storeKind, loaded, job, crashed >>

NextApplyConc ==
    \/ \E g \in Goroutines : ApplyLoad(g)
    \/ \E g \in Goroutines : ApplyPersist(g)

SpecApplyConc == InitApplyConc /\ [][NextApplyConc]_vars

(***************************************************************************)
(* Errors on their way up: an error is created, then each caller on the    *)
(* way wraps it (xerrors.Errorf with %w, or a wrapper carrying a kind) or   *)
(* formats it into a new error (fmt.Errorf with %v).  last.err is the      *)
(* error, last.root the error its chain ends in.                           *)
(***************************************************************************)
Kinds == {errInvalidEncoding, errUnboundEventType, errAggregateNotFound, errUnhandledEvent}

Leaves == {Nil, ErrorsNew("EOF")} \cup { << k >> : k \in Kinds }

Formats == {"unable to load", "no aggregate found with id"}

InitErrors ==
    /\ storeKind = "Store"
    /\ eventsByID = << >>
    /\ before = << >>
    /\ \E e \in Leaves : last = [NoOp EXCEPT !.op = "error", !.err = e, !.root = e]
    /\ calls = <<>>
    /\ published = <<>>
    /\ saved = {}
    /\ loaded = << >>
    /\ pc = [g \in Goroutines |-> "idle"]
    /\ job = [g \in Goroutines |-> NoJob]
    /\ crashed = FALSE

Layers(err) == Len(err) - Len(last.root)

\* return xerrors.Errorf("...: %w", err)
ErrWrap ==
    /\ last.err # Nil
    /\ Layers(last.err) < MaxLayers
    /\ \E format \in Formats :
          last' = [last EXCEPT !.op = "Errorf", !.err = Errorf(format, last.err)]
    /\ UNCHANGED << storeKind, eventsByID, before, calls, published, saved, loaded,
                    goroutines >>

\* return a wrapper of another kind around err
ErrWrapKind ==
    /\ last.err # Nil
    /\ Layers(last.err) < MaxLayers
    /\ \E kind \in Kinds \ {errAggregateNotFound} :
          last' = [last EXCEPT !.op = "WithKind", !.err = WithKind(kind, last.err)]
    /\ UNCHANGED << storeKind, eventsByID, before, calls, published, saved, loaded,
                    goroutines >>

\* return fmt.Errorf("...: %v", err): a new error, nothing to unwrap
ErrFormat ==
    /\ last.err # Nil
    /\ last.op # "fmt.Errorf"
    /\ \E format \in Formats :
          last' = [last EXCEPT !.op = "fmt.Errorf", !.err = ErrorfV(format, last.err),
                               !.root = ErrorfV(format, last.err)]
    /\ UNCHANGED << storeKind, eventsByID, before, calls, published, saved, loaded,
                    goroutines >>

NextErrors ==
    \/ ErrWrap
    \/ ErrWrapKind
    \/ ErrFormat

SpecErrors == InitErrors /\ [][NextErrors]_vars

(***************************************************************************)
(* The serializer on its own: the caller's events (last.events) are        *)
(* encoded, a single one by MarshalEvent or the batch by MarshalAll, and a *)
(* record of the result is decoded (UnmarshalEvent).  The events are those *)
(* of the registered types, of a type that was never registered and of a   *)
(* type the encoder rejects.                                               *)
(***************************************************************************)
\* EntitySetName is an event type of the tests no serializer of the
\* repository's tests registers.
SerializerEvents ==
    EventsOf({"a"})
    \cup { Event(t, "a", v, n) : t \in {"EntitySetName"} \cup Unencodable,
                                 v \in Versions, n \in Names }

InitSerializer ==
    /\ storeKind = "Store"
    /\ eventsByID = << >>
    /\ before = << >>
    /\ \E events \in Batches(SerializerEvents, MaxRecords) :
          last = [NoOp EXCEPT !.op = "events", !.events = events]
    /\ calls = <<>>
    /\ published = <<>>
    /\ saved = {}
    /\ loaded = << >>
    /\ pc = [g \in Goroutines |-> "idle"]
    /\ job = [g \in Goroutines |-> NoJob]
    /\ crashed = FALSE

\* record, err := serializer.MarshalEvent(event)
SerializerMarshalEvent ==
    /\ last.op = "events"
    /\ Len(last.events) = 1
    /\ \E r \in {MarshalEvent(last.events[1])} :
          last' = [last EXCEPT !.op = "MarshalEvent",
                               !.records = IF r.err = Nil THEN << r.record >> ELSE <<>>,
                               !.err = r.err]
    /\ UNCHANGED << storeKind, eventsByID, before, calls, published, saved, loaded,
                    goroutines >>

\* history, err := serializer.MarshalAll(events...)
SerializerMarshalAll ==
    /\ last.op = "events"
    /\ \E r \in {MarshalAll(last.events)} :
          last' = [last EXCEPT !.op = "MarshalAll", !.records = r.history, !.err = r.err]
    /\ UNCHANGED << storeKind, eventsByID, before, calls, published, saved, loaded,
                    goroutines >>

\* event, err := serializer.UnmarshalEvent(record), of a record just encoded
SerializerUnmarshalEvent ==
    /\ last.op \in {"MarshalEvent", "MarshalAll"}
    /\ \E i \in 1..Len(last.records) :
       \E r \in {UnmarshalEvent(last.records[i])} :
          last' = [last EXCEPT !.op = "UnmarshalEvent", !.index = i,
                               !.decoded = IF r.err = Nil THEN << r.event >> ELSE <<>>,
                               !.err = r.err]
    /\ UNCHANGED << storeKind, eventsByID, before, calls, published, saved, loaded,
                    goroutines >>

NextSerializer ==
    \/ SerializerMarshalEvent
    \/ SerializerMarshalAll
    \/ SerializerUnmarshalEvent

SpecSerializer == InitSerializer /\ [][NextSerializer]_vars

(***************************************************************************)
(* The scenario builder (src/unnamed/part_001) and the Order aggregate its *)
(* tests bind it to (src/unnamed/part_002).  A scenario is Given(events),  *)
(* When(command), Then(expected events); what Then finds wrong it reports  *)
(* through TestingT.Errorf.  An event is the embedded Model (ID, Version,  *)
(* At) under its type; At is 0 for the zero time.  A message is written as *)
(* the place that reports it.                                              *)
(***************************************************************************)
OrderEvent(type, id, version, at) ==
    [Type |-> type, ID |-> id, Version |-> version, At |-> at]

\* time.Now()
Now == 1

\* reflect.New(t): a zero Order
newOrder == [ID |-> "", Version |-> 0, State |-> ""]

\* Order.On
OrderOn(item, event) ==
    CASE event.Type = "OrderCreated" ->
            [aggregate |-> [ID |-> event.ID, Version |-> event.Version, State |-> "created"],
             err |-> Nil]
      [] event.Type = "OrderShipped" ->
            [aggregate |-> [ID |-> event.ID, Version |-> event.Version, State |-> "shipped"],
             err |-> Nil]
      [] OTHER -> [aggregate |-> item, err |-> ErrorsNew("unable to handle event")]

\* Order.Apply
OrderApply(item, command) ==
    CASE command.Type = "CreateOrder" ->
            [events |-> << OrderEvent("OrderCreated", command.ID, item.Version + 1, Now) >>,
             err |-> Nil]
      [] command.Type = "ShipOrder" ->
            IF item.State # "created"
            THEN [events |-> <<>>, err |-> ErrorsNew("order has already shipped")]
            ELSE [events |-> << OrderEvent("OrderShipped", command.ID, item.Version + 1,
                                           Now) >>,
                  err |-> Nil]
      [] OTHER -> [events |-> <<>>, err |-> ErrorsNew("unhandled command")]

\* The given loop of Builder.apply, from event i on: [aggregate, messages]
RECURSIVE GivenLoop(_, _, _, _)
GivenLoop(given, i, aggregate, messages) ==
    IF i > Len(given) THEN [aggregate |-> aggregate, messages |-> messages]
    ELSE LET o == OrderOn(aggregate, given[i]) IN
         GivenLoop(given, i + 1, o.aggregate,
                   IF o.err # Nil THEN Append(messages, "apply: got err; want nil")
                   ELSE messages)

\* Builder.apply: [events, err, messages]
BuilderApply(given, command) ==
    LET g == GivenLoop(given, 1, newOrder, <<>>)
        a == OrderApply(g.aggregate, command)
    IN  [events |-> a.events, err |-> a.err, messages |-> g.messages]

\* reflect.DeepEqual(zero, fe.Interface()) for the Model field
IsZeroModel(event) == event.ID = "" /\ event.Version = 0 /\ event.At = 0

\* deepEquals on two time.Time values: every field of time.Time is unexported,
\* CanInterface is false and the field is passed over.
deepEqualsTime(expected, actual) == [ok |-> TRUE, messages |-> <<>>]

\* deepEquals on two Model values: the fields ID, Version and At in turn.
deepEqualsModel(expected, actual) ==
    IF expected.ID # "" /\ actual.ID # expected.ID
    THEN [ok |-> FALSE, messages |-> << "Model.ID" >>]
    ELSE IF expected.Version # 0 /\ actual.Version # expected.Version
    THEN [ok |-> FALSE, messages |-> << "Model.Version" >>]
    ELSE IF expected.At # 0 /\ ~deepEqualsTime(actual.At, expected.At).ok
    THEN [ok |-> FALSE, messages |-> deepEqualsTime(actual.At, expected.At).messages]
    ELSE [ok |-> TRUE, messages |-> <<>>]

\* deepEquals on two events: [ok, messages].  The types are compared first; the
\* one field of an event type is the embedded Model, a struct, for which
\* deepEquals calls itself with got (the field of actual) in the place of
\* expected and want (the field of expected) in the place of actual.
deepEquals(expected, actual) ==
    IF actual.Type # expected.Type THEN [ok |-> FALSE, messages |-> <<>>]
    ELSE IF IsZeroModel(expected) THEN [ok |-> TRUE, messages |-> <<>>]
    ELSE deepEqualsModel(actual, expected)

\* The loop of Then over the expected events, from index i on.
RECURSIVE ThenLoop(_, _, _, _)
ThenLoop(expected, actual, i, messages) ==
    IF i > Len(expected) THEN messages
    ELSE ThenLoop(expected, actual, i + 1,
                  messages \o deepEquals(expected[i], actual[i]).messages)

\* Builder.Then: [actual, err, messages]
Then(given, command, expected) ==
    LET a == BuilderApply(given, command)
        m == a.messages \o (IF a.err # Nil THEN << "Then: got err; want nil" >> ELSE <<>>)
    IN  [actual |-> a.events, err |-> a.err,
         messages |-> IF Len(a.events) # Len(expected)
                      THEN Append(m, "Then: got len; want len")
                      ELSE ThenLoop(expected, a.events, 1, m)]

\* What a scenario may expect: events naming a type and, or not, an id and
\* a version.
ExpectedEvents ==
    { OrderEvent(t, i, v, 0) : t \in {"OrderCreated", "OrderShipped"},
                               i \in {""} \cup AggregateIDs, v \in 0..MaxRecords }

\* Given(): nothing, a created order, a created and shipped order.
Givens ==
    { <<>>,
      << OrderEvent("OrderCreated", "a", 1, Now) >>,
      << OrderEvent("OrderCreated", "a", 1, Now), OrderEvent("OrderShipped", "a", 2, Now) >> }

\* When(command); CancelOrder is a command Order does not know.
OrderCommands == { [Type |-> t, ID |-> "a"] : t \in {"CreateOrder", "ShipOrder", "CancelOrder"} }

\* scenario.New(t, &Order{}).Given(given...).When(command)
InitScenario ==
    /\ storeKind = "Store"
    /\ eventsByID = << >>
    /\ before = << >>
    /\ \E given \in Givens, command \in OrderCommands,
          expected \in Batches(ExpectedEvents, MaxRecords) :
          last = [NoOp EXCEPT !.op = "When", !.given = given, !.command = command,
                              !.expected = expected]
    /\ calls = <<>>
    /\ published = <<>>
    /\ saved = {}
    /\ loaded = << >>
    /\ pc = [g \in Goroutines |-> "idle"]
    /\ job = [g \in Goroutines |-> NoJob]
    /\ crashed = FALSE

\* .Then(expected...)
ScenarioThen ==
    /\ last.op = "When"
    /\ \E r \in {Then(last.given, last.command, last.expected)} :
          last' = [last EXCEPT !.op = "Then", !.events = r.actual, !.err = r.err,
                               !.messages = r.messages]
    /\ UNCHANGED << storeKind, eventsByID, before, calls, published, saved, loaded,
                    goroutines >>

NextScenario == ScenarioThen

SpecScenario == InitScenario /\ [][NextScenario]_vars

(***************************************************************************)
(* Properties.                                                             *)
(***************************************************************************)
NonDecreasing(h) == \A i \in 1..(Len(h) - 1) : h[i].Version <= h[i + 1].Version

StrictlyAscending(h) == \A i \in 1..(Len(h) - 1) : h[i].Version < h[i + 1].Version

DistinctVersions(h) ==
    \A i, j \in 1..Len(h) : i # j => h[i].Version # h[j].Version

\* The records of h, in h's order, whose version lies in the requested range.
RangeOf(h, fromVersion, toVersion) ==
    SelectSeq(h, LAMBDA record :
                    /\ fromVersion <= record.Version
                    /\ (toVersion = 0 \/ record.Version <= toVersion))

NoHistory(m, id) == HistoryLen(m, id) = 0

Contains(s, x) == \E i \in 1..Len(s) : s[i] = x

\* C1: for an aggregate id that has records, Store.Load(id, fromVersion,
\* toVersion) returns exactly the stored records whose version v satisfies
\* v >= fromVersion and (toVersion = 0 or v <= toVersion), in ascending order.
C1_LoadReturnsRange ==
    (last.op = "Store.Load" /\ ~NoHistory(eventsByID, last.id)) =>
        /\ last.err = Nil
        /\ last.history = RangeOf(eventsByID[last.id], last.fromVersion, last.toVersion)
        /\ NonDecreasing(last.history)

\* C2: after any sequence of Store.Save calls the stored history of every
\* aggregate id, and what Store.Load returns, is in non-decreasing version
\* order, and strictly ascending when the versions are distinct.
C2_HistorySorted ==
    /\ \A id \in DOMAIN eventsByID :
          /\ NonDecreasing(eventsByID[id])
          /\ DistinctVersions(eventsByID[id]) => StrictlyAscending(eventsByID[id])
    /\ last.op = "Store.Load" => NonDecreasing(last.history)

\* A Save whose records arrive below a version the history already holds.
C2_Witness ==
    /\ last.op = "Store.Save"
    /\ Len(last.records) > 0
    /\ ~NoHistory(before, last.id)
    /\ \E i \in 1..Len(before[last.id]) :
          last.records[1].Version < before[last.id][i].Version
    /\ Len(eventsByID[last.id]) = Len(before[last.id]) + Len(last.records)

\* C3: Repository.Load of an aggregate id nothing was ever saved for fails
\* with an error IsNotFoundError accepts and returns no aggregate and version
\* 0, whatever was done to other aggregate ids before.
C3_LoadNeverSaved ==
    (last.op = "Repository.Load" /\ last.id \notin saved) =>
        /\ last.err # Nil
        /\ IsNotFoundError(last.err)
        /\ last.aggregate = <<>>
        /\ last.version = 0

\* A Load of a never-saved id after records were saved for another id.
C3_Witness ==
    /\ last.op = "Repository.Load"
    /\ last.id \notin saved
    /\ saved # {}
    /\ IsNotFoundError(last.err)

\* C4: when the Load inside Apply fails with anything but AggregateNotFound,
\* Apply returns that error, does not run the command handler and writes
\* nothing to the store.
C4_ApplyPropagatesLoadFailure ==
    (/\ last.op = "Repository.Apply"
     /\ last.loadErr # Nil
     /\ ~IsNotFoundError(last.loadErr)) =>
        /\ last.err = last.loadErr
        /\ ~last.handled
        /\ eventsByID = before
        /\ ~Contains(calls, "Save")
        /\ ~Contains(calls, "SaveAggregate")

\* C5: Apply of a creating command against an aggregate id with no history
\* succeeds, and a Load of that id right afterwards succeeds and reports the
\* version of the generated event, which is 1.
C5_ApplyCreatesMissing ==
    (/\ last.op = "Repository.Apply"
     /\ last.command.Type = "CreateEntity"
     /\ last.command.ID # ""
     /\ NoHistory(before, last.id)) =>
        /\ last.err = Nil
        /\ ~IsNotFoundError(last.err)
        /\ Len(last.events) = 1
        /\ RepoLoad(eventsByID, last.id).err = Nil
        /\ RepoLoad(eventsByID, last.id).version = last.events[1].Version
        /\ RepoLoad(eventsByID, last.id).version = 1
        /\ last.version = 1

\* A create command applied to an id without history while another id has one.
C5_Witness ==
    /\ last.op = "Repository.Apply"
    /\ last.command.Type = "CreateEntity"
    /\ last.command.ID # ""
    /\ NoHistory(before, last.id)
    /\ before # << >>
    /\ last.err = Nil
    /\ HistoryLen(eventsByID, last.id) = 1

\* C6: when the command handler returns no events, Apply returns the version
\* Load established (0 only when the aggregate had no history) and writes
\* nothing: neither Save nor SaveAggregate is invoked and the store is
\* unchanged, whatever the store implements.
C6_NoEventsNoWrite ==
    (/\ last.op = "Repository.Apply"
     /\ last.handled
     /\ last.err = Nil
     /\ last.events = <<>>) =>
        /\ last.version = last.loadVersion
        /\ (last.version = 0 => NoHistory(before, last.id))
        /\ ~Contains(calls, "Save")
        /\ ~Contains(calls, "SaveAggregate")
        /\ eventsByID = before

\* The events observer o was called with, in call order.
SeenBy(o) ==
    LET mine == SelectSeq(published, LAMBDA p : p[1] = o)
    IN  [i \in 1..Len(mine) |-> mine[i][2]]

\* C7: on a successful Apply every registered observer is called exactly once
\* per generated event, within that Apply, in generation order.
C7_ObserversInOrder ==
    (last.op = "Repository.Apply" /\ last.err = Nil) =>
        /\ \A o \in Observers : SeenBy(o) = last.events
        /\ \A k \in 1..Len(published) : published[k][1] \in Observers
        /\ Len(published) = NumObservers * Len(last.events)

\* An Apply that generated two different events and published them.
C7_Witness ==
    /\ last.op = "Repository.Apply"
    /\ last.err = Nil
    /\ Len(last.events) = 2
    /\ last.events[1] # last.events[2]
    /\ \A o \in Observers : SeenBy(o) = last.events

\* How many times record r occurs in history h.
Count(h, r) == Cardinality({ i \in 1..Len(h) : h[i] = r })

\* How many times the Save calls of the goroutines passed record r for id.
Passed(id, r) ==
    Cardinality({ g \in Goroutines : job[g].id = id /\ Count(job[g].records, r) > 0 })

\* C8: the in-memory store serialises its operations, so that once two
\* concurrent Save calls have both returned the store holds every record of
\* both calls: no update is lost.
C8_NoLostUpdate ==
    (\A g \in Goroutines : pc[g] = "done") =>
        \A g \in Goroutines :
            /\ job[g].id \in DOMAIN eventsByID
            /\ \A i \in 1..Len(job[g].records) :
                  Count(eventsByID[job[g].id], job[g].records[i])
                      = Passed(job[g].id, job[g].records[i])

\* C9: when the bound store implements an aggregate-saving interface
\* (StoreAggregate or its replacement AggregateSaver), an Apply that persists
\* events does so through SaveAggregate and never through Store.Save.
C9_AggregateSaverPreferred ==
    (/\ last.op = "Repository.Apply"
     /\ storeKind \in {"StoreAggregate", "AggregateSaver"}
     /\ last.err = Nil
     /\ last.events # <<>>) =>
        /\ Contains(calls, "SaveAggregate")
        /\ ~Contains(calls, "Save")

\* The index of the last record of h whose event type is t, 0 when none.
LastOfType(h, t) ==
    LET S == { i \in 1..Len(h) : h[i].Data[1] = t }
    IN  IF S = {} THEN 0 ELSE CHOOSE i \in S : \A j \in S : j <= i

Handled(h) == \A i \in 1..Len(h) : h[i].Data[1] \in {"EntityCreated", "EntityNameSet"}

\* C10: Repository.Load of an id whose history is non-empty (and holds only
\* events the aggregate handles) succeeds and returns the fold of every
\* stored record, in ascending version order, into a fresh aggregate, with
\* the version of the last applied event: the largest version of the history.
C10_LoadFoldsHistory ==
    (/\ last.op = "Repository.Load"
     /\ ~NoHistory(eventsByID, last.id)
     /\ Handled(eventsByID[last.id])) =>
        LET h == eventsByID[last.id]
            c == LastOfType(h, "EntityCreated")
            n == LastOfType(h, "EntityNameSet")
        IN  /\ last.err = Nil
            /\ \A i \in 1..Len(h) : h[i].Version <= last.version
            /\ \E i \in 1..Len(h) : h[i].Version = last.version
            /\ Len(last.aggregate) = 1
            /\ last.aggregate[1].Version = last.version
            /\ last.aggregate[1].Name = (IF n = 0 THEN "" ELSE h[n].Data[4])
            /\ last.aggregate[1].ID = (IF c = 0 THEN "" ELSE h[c].Data[2])

\* Load after saving versions 1 and 2, where version 2 sets the name.
C10_Witness ==
    /\ last.op = "Repository.Load"
    /\ last.err = Nil
    /\ HistoryLen(eventsByID, last.id) = 2
    /\ eventsByID[last.id][1].Data[1] = "EntityCreated"
    /\ eventsByID[last.id][1].Version = 1
    /\ eventsByID[last.id][2].Data[1] = "EntityNameSet"
    /\ eventsByID[last.id][2].Version = 2
    /\ last.aggregate = << [Version |-> 2, ID |-> last.id, Name |-> "Jones"] >>
    /\ last.version = 2

Wraps(err, inner) ==
    /\ inner # Nil
    /\ Len(err) >= Len(inner)
    /\ SubSeq(err, Len(err) - Len(inner) + 1, Len(err)) = inner

\* The first record of h the aggregate's On rejects, 0 when it takes them all.
FirstRejected(h) ==
    LET S == { i \in 1..Len(h) : ~Handled(SubSeq(h, i, i)) }
    IN  IF S = {} THEN 0 ELSE CHOOSE i \in S : \A j \in S : i <= j

\* C12: when the aggregate's On rejects an event of the history during
\* Repository.Load, Load fails with an error of the UnhandledEvent kind
\* (xerrors.Is finds errUnhandledEvent in it) that wraps the failure On
\* returned, and returns no aggregate and version 0.
C12_LoadClassifiesUnhandled ==
    (/\ last.op = "Repository.Load"
     /\ ~NoHistory(eventsByID, last.id)
     /\ FirstRejected(eventsByID[last.id]) # 0) =>
        LET h == eventsByID[last.id]
            rejected == UnmarshalEvent(h[FirstRejected(h)]).event
        IN  /\ last.err # Nil
            /\ Is(last.err, errUnhandledEvent)
            /\ Wraps(last.err, On(newAggregate, rejected).err)
            /\ last.aggregate = <<>>
            /\ last.version = 0

ErrorOps == {"error", "Errorf", "WithKind", "fmt.Errorf"}

\* C13: IsNotFoundError accepts an error exactly when the chain of errors it
\* wraps ends in AggregateNotFound, however many layers were wrapped around it
\* and whatever kind those layers carry; it rejects the nil error and errors
\* whose chain ends in another kind or in no kind.
C13_NotFoundSurvivesWrapping ==
    (last.op \in ErrorOps) =>
        /\ IsNotFoundError(last.err) <=> (last.root = << errAggregateNotFound >>)
        /\ last.err = Nil => ~IsNotFoundError(last.err)

\* AggregateNotFound under MaxLayers layers, one of them of another kind.
C13_Witness ==
    /\ last.op \in ErrorOps
    /\ last.root = << errAggregateNotFound >>
    /\ Layers(last.err) = MaxLayers
    /\ Is(last.err, errUnboundEventType)
    /\ last.err[1] # errUnboundEventType
    /\ IsNotFoundError(last.err)

\* C14: Repository.Save with an empty event list returns success without
\* calling the serializer or the store: every history is as before and the
\* store knows no aggregate id it did not know.
C14_SaveNothing ==
    (last.op = "Repository.Save" /\ last.events = <<>>) =>
        /\ last.err = Nil
        /\ calls = <<>>
        /\ eventsByID = before
        /\ DOMAIN eventsByID = DOMAIN before

\* An empty Save on a repository whose store holds a history.
C14_Witness ==
    /\ last.op = "Repository.Save"
    /\ last.events = <<>>
    /\ last.err = Nil
    /\ TotalRecords(before) > 0

\* C15: Apply with a nil command, or with a command whose aggregate id is
\* empty, fails with version 0 before any call of the store or the
\* serializer, without invoking the command handler and without calling an
\* observer; the store is as before.
C15_ApplyRejectsBlankCommand ==
    (/\ last.op = "Repository.Apply"
     /\ (last.command = NilCommand \/ last.command.ID = "")) =>
        /\ last.err # Nil
        /\ last.version = 0
        /\ calls = <<>>
        /\ ~last.handled
        /\ last.events = <<>>
        /\ published = <<>>
        /\ eventsByID = before

\* A creating command without aggregate id, applied while the store holds a
\* history.
C15_Witness ==
    /\ last.op = "Repository.Apply"
    /\ last.command # NilCommand
    /\ last.command.Type = "CreateEntity"
    /\ last.command.ID = ""
    /\ last.err # Nil
    /\ TotalRecords(before) > 0

Counting(h) == \A i \in 1..Len(h) : h[i].Version = i

\* C17: a successful Apply returns the version of the last generated event
\* when the handler produced events, and otherwise the version Load
\* established.  So the k-th of successive Apply calls on one aggregate whose
\* handler emits one event at the loaded version + 1 (CreateEntity) returns k:
\* on a history of k - 1 handled events with the versions 1..k-1 it returns k
\* and leaves a history with the versions 1..k.
C17_ApplyVersion ==
    (last.op = "Repository.Apply" /\ last.err = Nil) =>
        /\ last.events # <<>> =>
              last.version = EventVersion(last.events[Len(last.events)])
        /\ last.events = <<>> => last.version = last.loadVersion
        /\ (/\ last.command.Type = "CreateEntity"
            /\ Handled(IF NoHistory(before, last.id) THEN <<>> ELSE before[last.id])
            /\ Counting(IF NoHistory(before, last.id) THEN <<>> ELSE before[last.id])) =>
              /\ last.version = HistoryLen(before, last.id) + 1
              /\ HistoryLen(eventsByID, last.id) = last.version
              /\ Counting(eventsByID[last.id])

\* The second of two successive creating Apply calls on one aggregate.
C17_Witness ==
    /\ last.op = "Repository.Apply"
    /\ last.err = Nil
    /\ last.command.Type = "CreateEntity"
    /\ HistoryLen(before, last.id) = 1
    /\ Counting(before[last.id])
    /\ last.loadVersion = 1
    /\ last.version = 2
    /\ HistoryLen(eventsByID, last.id) = 2

\* C18: when the aggregate's command handler returns a failure, Apply returns
\* that very failure, with version 0, and leaves the store unchanged: nothing
\* is encoded, saved or published.
C18_HandlerFailureUnchanged ==
    (/\ last.op = "Repository.Apply"
     /\ last.handled
     /\ CommandHandlerApply(last.aggregate[1], last.command).err # Nil) =>
        /\ last.err = CommandHandlerApply(last.aggregate[1], last.command).err
        /\ last.version = 0
        /\ eventsByID = before
        /\ calls = << "Load" >>
        /\ published = <<>>

\* A command the handler rejects, applied to an aggregate that has a history.
C18_Witness ==
    /\ last.op = "Repository.Apply"
    /\ last.command.Type = "Reject"
    /\ last.handled
    /\ last.loadErr = Nil
    /\ last.loadVersion > 0
    /\ last.err = ErrorsNew("command rejected")

\* The position of the last call of s that is one of names, 0 when none.
LastCall(s, names) ==
    LET S == { i \in 1..Len(s) : s[i] \in names }
    IN  IF S = {} THEN 0 ELSE CHOOSE i \in S : \A j \in S : j <= i

\* The position of the first call of s that is one of names, 0 when none.
FirstCall(s, names) ==
    LET S == { i \in 1..Len(s) : s[i] \in names }
    IN  IF S = {} THEN 0 ELSE CHOOSE i \in S : \A j \in S : i <= j

\* C19: within one Apply the stages run in order and publication is last.
\* Whenever Apply returns an error (a rejected command, a failure of the
\* handler, of the encoding, of the folding or of the store) no observer was
\* called; when observers were called, Apply succeeded, and the calls come
\* after the Load, after every MarshalEvent and after the Save or
\* SaveAggregate that persisted the batch.
C19_PublicationLast ==
    (last.op = "Repository.Apply") =>
        /\ last.err # Nil => (published = <<>> /\ ~Contains(calls, "Observer"))
        /\ published # <<>> =>
              /\ last.err = Nil
              /\ Contains(calls, "Observer")
              /\ LastCall(calls, {"Save", "SaveAggregate"}) > 0
              /\ LastCall(calls, {"Load", "MarshalEvent", "Save", "SaveAggregate"})
                    < FirstCall(calls, {"Observer"})
              /\ FirstCall(calls, {"Load"}) = 1
              /\ FirstCall(calls, {"MarshalEvent"})
                    < FirstCall(calls, {"Save", "SaveAggregate"})
              /\ \A i \in 1..Len(last.events) :
                    Contains(eventsByID[last.id], MarshalEvent(last.events[i]).record)

\* An Apply that generated events and failed in the store, with observers
\* registered and none called.
C19_Witness ==
    /\ last.op = "Repository.Apply"
    /\ last.events # <<>>
    /\ last.err = ErrorsNew("store unavailable")
    /\ LastCall(calls, {"Save", "SaveAggregate"}) = Len(calls)
    /\ NumObservers > 0
    /\ published = <<>>

\* C20: Store.Load fails with AggregateNotFound exactly when the store holds
\* no record for the aggregate id: it fails for every id without records, one
\* that was passed to Store.Save with an empty record list included, and it
\* does not fail for an id with at least one record, whatever the range.
C20_NotFoundIffNoRecords ==
    (last.op = "Store.Load") =>
        /\ NoHistory(eventsByID, last.id) => (last.err # Nil /\ IsNotFoundError(last.err))
        /\ ~NoHistory(eventsByID, last.id) => last.err = Nil

\* The aggregate Load returned for the Apply, a new one when Load failed.
LoadedAggregate ==
    IF last.loadErr # Nil THEN newAggregate ELSE RepoLoad(before, last.id).aggregate[1]

\* What the aggregate is after the events: the version of the last event, the
\* id of the last EntityCreated and the name of the last EntityNameSet.
RECURSIVE After(_, _)
After(aggregate, events) ==
    IF events = <<>> THEN aggregate
    ELSE LET e == events[Len(events)]
             a == After(aggregate, SubSeq(events, 1, Len(events) - 1))
         IN  [Version |-> e.Version,
              ID |-> IF e.Type = "EntityCreated" THEN e.ID ELSE a.ID,
              Name |-> IF e.Type = "EntityNameSet" THEN e.Name ELSE a.Name]

Foldable(events) ==
    \A i \in 1..Len(events) : events[i].Type \in {"EntityCreated", "EntityNameSet"}

\* C21: on the aggregate-saving path (the store implements StoreAggregate) an
\* Apply whose events were generated and encoded folds them, in order, into
\* the loaded aggregate before it calls SaveAggregate: the aggregate handed to
\* the store carries all of them.  When the aggregate rejects one of them,
\* Apply fails, SaveAggregate is not called and nothing is persisted or
\* published.
C21_FoldBeforeSaveAggregate ==
    (/\ last.op = "Repository.Apply"
     /\ ImplementsStoreAggregate(storeKind)
     /\ last.handled
     /\ CommandHandlerApply(LoadedAggregate, last.command).err = Nil
     /\ makeRecords(last.events).err = Nil) =>
        /\ Foldable(last.events) =>
              /\ Contains(calls, "SaveAggregate")
              /\ ~Contains(calls, "Save")
              /\ last.aggregate = << After(LoadedAggregate, last.events) >>
        /\ ~Foldable(last.events) =>
              /\ last.err # Nil
              /\ last.version = 0
              /\ ~Contains(calls, "SaveAggregate")
              /\ ~Contains(calls, "Save")
              /\ eventsByID = before
              /\ published = <<>>

\* Two generated events folded into the aggregate SaveAggregate received.
C21_Witness ==
    /\ last.op = "Repository.Apply"
    /\ storeKind = "StoreAggregate"
    /\ last.command.Type = "CreateNamed"
    /\ last.err = Nil
    /\ Len(last.events) = 2
    /\ Contains(calls, "SaveAggregate")
    /\ last.aggregate = << [Version |-> 2, ID |-> last.id, Name |-> "Jones"] >>

\* The history of id in m, empty when m has none.
HistoryOf(m, id) == IF id \in DOMAIN m THEN m[id] ELSE <<>>

\* C22: Store.Save is append-only.  After Save(id, r1..rk) the history of id
\* holds every record as often as the history before and r1..rk together do:
\* nothing is removed or replaced, a record whose version was already there
\* stands beside the earlier one, and every other id has the history it had.
C22_SaveAppendOnly ==
    (last.op = "Store.Save") =>
        /\ last.id \in DOMAIN eventsByID
        /\ Len(eventsByID[last.id]) = HistoryLen(before, last.id) + Len(last.records)
        /\ \A i \in 1..Len(eventsByID[last.id]) :
              LET r == eventsByID[last.id][i] IN
              Count(eventsByID[last.id], r)
                  = Count(HistoryOf(before, last.id), r) + Count(last.records, r)
        /\ \A i \in 1..HistoryLen(before, last.id) :
              Count(eventsByID[last.id], before[last.id][i])
                  >= Count(before[last.id], before[last.id][i])
        /\ \A id \in (DOMAIN eventsByID \cup DOMAIN before) \ {last.id} :
              /\ id \in DOMAIN before
              /\ id \in DOMAIN eventsByID
              /\ eventsByID[id] = before[id]

\* A Save of a record whose version the history already holds, for another
\* event, while the store knows another id: both records are there afterwards.
C22_Witness ==
    /\ last.op = "Store.Save"
    /\ Len(last.records) = 1
    /\ HistoryLen(before, last.id) = 1
    /\ before[last.id][1].Version = last.records[1].Version
    /\ before[last.id][1] # last.records[1]
    /\ Contains(eventsByID[last.id], before[last.id][1])
    /\ Contains(eventsByID[last.id], last.records[1])
    /\ DOMAIN before # {last.id}

\* The records the serializer makes of the events.
RecordsOf(events) == [i \in 1..Len(events) |-> MarshalEvent(events[i]).record]

\* History new is history old with the records added: it holds each of them
\* as often as old and records together do, and nothing else.
Appended(old, records, new) ==
    /\ Len(new) = Len(old) + Len(records)
    /\ \A i \in 1..Len(new) :
          Count(new, new[i]) = Count(old, new[i]) + Count(records, new[i])

\* Every aggregate id but id has in m the history it has in old.
OthersUnchanged(old, m, id) ==
    \A other \in (DOMAIN old \cup DOMAIN m) \ {id} :
        /\ other \in DOMAIN old
        /\ other \in DOMAIN m
        /\ m[other] = old[other]

\* C23: a successful Repository.Save of a non-empty event list stores the
\* records of all its events under the aggregate id of the first event, also
\* those of later events that carry another id, and leaves the history of
\* every other aggregate id as it was.
C23_SaveKeysByFirstEvent ==
    (last.op = "Repository.Save" /\ last.events # <<>> /\ last.err = Nil) =>
        LET id == AggregateID(last.events[1]) IN
        /\ id \in DOMAIN eventsByID
        /\ Appended(HistoryOf(before, id), RecordsOf(last.events), eventsByID[id])
        /\ OthersUnchanged(before, eventsByID, id)

\* A Save of an event of one aggregate followed by an event of another whose
\* history holds a record: both records are filed under the first id.
C23_Witness ==
    /\ last.op = "Repository.Save"
    /\ last.err = Nil
    /\ Len(last.events) = 2
    /\ AggregateID(last.events[1]) # AggregateID(last.events[2])
    /\ HistoryLen(before, AggregateID(last.events[2])) = 1
    /\ HistoryLen(eventsByID, AggregateID(last.events[2])) = 1
    /\ Contains(eventsByID[AggregateID(last.events[1])], MarshalEvent(last.events[2]).record)
    /\ HistoryLen(eventsByID, AggregateID(last.events[1]))
          = HistoryLen(before, AggregateID(last.events[1])) + 2

\* The first event of the batch the serializer cannot encode, 0 when none.
FirstUnencodable(events) ==
    LET S == { i \in 1..Len(events) : MarshalEvent(events[i]).err # Nil }
    IN  IF S = {} THEN 0 ELSE CHOOSE i \in S : \A j \in S : i <= j

\* C24: when the serializer fails on an event of the batch in Repository.Save
\* or Repository.Apply, the call returns the serializer's error as it is and
\* writes no record of the batch, those encoded before the failing event
\* included: the store is not called and is as before, nothing is published.
C24_EncodingAllOrNothing ==
    (/\ last.op \in {"Repository.Save", "Repository.Apply"}
     /\ FirstUnencodable(last.events) # 0) =>
        /\ last.err = MarshalEvent(last.events[FirstUnencodable(last.events)]).err
        /\ eventsByID = before
        /\ ~Contains(calls, "Save")
        /\ ~Contains(calls, "SaveAggregate")
        /\ published = <<>>
        /\ last.version = 0

\* A batch of two whose second event cannot be encoded, saved on a store
\* that holds a history: the first event was encoded, nothing was written.
C24_Witness ==
    /\ last.op = "Repository.Save"
    /\ Len(last.events) = 2
    /\ FirstUnencodable(last.events) = 2
    /\ last.err = << errInvalidEncoding >>
    /\ calls = << "MarshalEvent", "MarshalEvent" >>
    /\ TotalRecords(before) > 0
    /\ eventsByID = before

\* C25: a successful Apply that generated events has added their records to
\* the history of the command's aggregate id and has left every other
\* history as it was, whether the store implements StoreAggregate or not.
C25_ApplyKeysByCommand ==
    (last.op = "Repository.Apply" /\ last.err = Nil /\ last.events # <<>>) =>
        /\ last.id \in DOMAIN eventsByID
        /\ Appended(HistoryOf(before, last.id), RecordsOf(last.events), eventsByID[last.id])
        /\ OthersUnchanged(before, eventsByID, last.id)

\* C26: version uniqueness within a history.  After any interleaving of
\* Apply calls on one aggregate id, the handler emitting the loaded version
\* + 1, two calls that both Load before either writes included, no history
\* holds two records of the same version.
C26_VersionsUnique ==
    \A id \in DOMAIN eventsByID : DistinctVersions(eventsByID[id])

\* Every field the expected event sets (a non-zero value) has that value in
\* the actual event.
FieldsMatch(expected, actual) ==
    /\ expected.ID # "" => actual.ID = expected.ID
    /\ expected.Version # 0 => actual.Version = expected.Version
    /\ expected.At # 0 => actual.At = expected.At

\* C27: when the command of a scenario produces one event and one is
\* expected, Then reports exactly one error through TestingT.Errorf if the
\* type of the event differs from the expected event's (got OrderCreated,
\* want OrderShipped), and no error if the type and every non-zero field of
\* the expected event match.
C27_ThenReportsTypeMismatch ==
    (/\ last.op = "Then"
     /\ last.err = Nil
     /\ Len(last.events) = 1
     /\ Len(last.expected) = 1) =>
        /\ last.events[1].Type # last.expected[1].Type => Len(last.messages) = 1
        /\ (/\ last.events[1].Type = last.expected[1].Type
            /\ FieldsMatch(last.expected[1], last.events[1])) => last.messages = <<>>

====
